---- MODULE Spec2Model ----
(***************************************************************************)
(* A model of micrograd's scalar autograd engine (micrograd/engine.py) and *)
(* of its graph compiler (micrograd/compile.py).                           *)
(*                                                                         *)
(* The node objects live in an arena: `nodes` is the sequence of all Node  *)
(* objects constructed so far and a node's identity is its position.  A    *)
(* node is a record                                                        *)
(*    op   : "Value", "Add", "Mul", "Pow" or "ReLU"   (the class)          *)
(*    lhs  : the node _lhs (Add, Mul, Pow) or _arg (ReLU), 0 for Value     *)
(*    rhs  : the node _rhs (Add, Mul), the exponent _rhs (Pow), else 0     *)
(*    data, grad, k : the fields data, grad and _k                         *)
(* Arithmetic is integer arithmetic: the leaf values, exponents and        *)
(* learning rates are small integers, on which Python's floats are exact.  *)
(***************************************************************************)
EXTENDS Integers, Sequences, FiniteSets, TLC

\* ---------------------------------------------------------------- bounds
\* MaxWork bounds a run: nodes constructed plus calls made; at least two calls
\* remain after the largest graph
MaxWork == 5
MaxNodes == MaxWork - 2
\* a compile run: nodes, list entries and calls of the bundle
MaxCompileWork == 6
\* compile is given graphs of at most half that size, which leaves room for
\* its lists and for calls of the bundle
MaxCompileNodes == MaxCompileWork \div 2
\* eval_step runs while every leaf value is at most this large
MaxLeaf == 8

\* values a leaf is constructed with, values passed to assign, exponents of Pow
LeafVals == {-1, 3}
AssignVals == {0, 2}
Exps == {-1, 0, 2}
Rates == {1, 2}
\* versions k passed to refresh: the initial _k, a first and a later one
Versions == {0, 1, 2}

VARIABLES
    nodes,      \* the arena of Node objects
    nops,       \* number of assign / refresh / backward calls made so far
    passed,     \* the versions k passed to refresh so far
    last,       \* the last call: its name, arguments, result and trace
    trav,       \* a backward() call in progress: its _build_topo call stack
    comp,       \* a compile() call: its arguments, position, value_map, code
    regs        \* the compiled bundle's variables v<i>, g<i> and its history

vars == <<nodes, nops, passed, last, trav, comp, regs>>

\* ------------------------------------------------------ helper operators
RECURSIVE IntPow(_, _)
\* base ** exponent for an exponent >= 0 (0 ** 0 is 1, as in Python)
IntPow(b, e) == IF e <= 0 THEN 1 ELSE b * IntPow(b, e - 1)

\* base ** exponent raises ZeroDivisionError
PowRaises(b, e) == b = 0 /\ e < 0

\* base ** exponent is an integer
PowExact(b, e) == e >= 0 \/ b \in {-1, 1}

\* base ** exponent.  A negative exponent gives 1 / base ** -exponent: an
\* integer for the bases 1 and -1, otherwise the fraction <<sign, denominator>>,
\* and for base 0 Python raises ZeroDivisionError.  The model computes with
\* integers: the callers test PowRaises and PowExact before they use the value.
PyPow(b, e) ==
    IF e >= 0 THEN IntPow(b, e)
    ELSE IF b = 0 THEN "ZeroDivisionError"
    ELSE IF b \in {-1, 1} THEN IntPow(b, -e)
    ELSE IF IntPow(b, -e) < 0 THEN <<-1, -IntPow(b, -e)>> ELSE <<1, IntPow(b, -e)>>

\* e * b ** f, the factor of `(rhs * lhs.data ** (rhs - 1)) * self.grad`: the
\* power is taken first (and may raise); 0 times a fraction is 0.0
PowCoef(e, b, f) == IF e = 0 THEN 0 ELSE e * PyPow(b, f)

PowCoefExact(e, b, f) == ~PowRaises(b, f) /\ (e = 0 \/ PowExact(b, f))

\* how a call ends: it returns; it raises ZeroDivisionError, which ends
\* every call above it with the assignments made so far left in place; or
\* it meets a value that is not an integer, which the model does not follow
Ok(ns) == [ns |-> ns, raised |-> FALSE, inexact |-> FALSE]

Stopped(st) == st.raised \/ st.inexact

\* bool * float, as in (self.data > 0.0) * self.grad
BoolMul(b, x) == IF b THEN x ELSE 0

Reverse(s) == [i \in 1..Len(s) |-> s[Len(s) + 1 - i]]

SeqToSet(s) == {s[i] : i \in 1..Len(s)}

NoCall == [op |-> "none", node |-> 0, k |-> 0, ret |-> 0, cached |-> FALSE,
           fresh |-> FALSE, calls |-> 0, recomputed |-> <<>>, topo |-> <<>>,
           zero |-> FALSE, loss |-> 0, values |-> <<>>, err |-> FALSE,
           raised |-> FALSE, iraised |-> FALSE]

NoTrav == [pc |-> "idle", root |-> 0, stack |-> <<>>, visited |-> {},
           topo |-> <<>>, calls |-> 0, steps |-> 0, rewired |-> FALSE]

EmptyMap == [n \in {} |-> 0]

NoComp == [pc |-> "idle", parameters |-> <<>>, scores |-> <<>>, total_loss |-> 0,
           inputs |-> <<>>, value_map |-> EmptyMap, visited |-> {}, code |-> <<>>,
           ret |-> 0, get_scores |-> <<>>, get_parameters |-> <<>>,
           vals |-> <<>>, grads |-> <<>>, data0 |-> <<>>]

NoRegs == [v |-> <<>>, g |-> <<>>, fwd |-> <<>>, steps |-> 0, k |-> 0,
           raised |-> FALSE, inexact |-> FALSE]

\* --------------------------------------------------------- construction
\* Node.__init__: grad 0.0, _k 0
Node(op, lhs, rhs, data) ==
    [op |-> op, lhs |-> lhs, rhs |-> rhs, data |-> data, grad |-> 0, k |-> 0]

\* Value.__init__
ValueInit(data) == Node("Value", 0, 0, data)

\* Add.__init__: data = lhs.data + rhs.data
AddInit(ns, lhs, rhs) == Node("Add", lhs, rhs, ns[lhs].data + ns[rhs].data)

\* Mul.__init__: data = lhs.data * rhs.data
MulInit(ns, lhs, rhs) == Node("Mul", lhs, rhs, ns[lhs].data * ns[rhs].data)

\* Pow.__init__: data = lhs.data ** rhs
PowInit(ns, lhs, rhs) == Node("Pow", lhs, rhs, PyPow(ns[lhs].data, rhs))

\* ReLU.__init__: value = 0.0 if value < 0.0 else value
ReLUInit(ns, arg) ==
    Node("ReLU", arg, 0, IF ns[arg].data < 0 THEN 0 ELSE ns[arg].data)

\* children()
Children(ns, n) ==
    CASE ns[n].op = "Value" -> <<>>
      [] ns[n].op \in {"Add", "Mul"} -> <<ns[n].lhs, ns[n].rhs>>
      [] OTHER -> <<ns[n].lhs>>

\* ---------------------------------------------------------------- refresh
\* The recursion threads a record st: the arena st.ns, the value the last
\* call returned st.ret, the number of refresh calls made st.calls, the
\* nodes whose data was recomputed, in order, st.recomputed, and whether a
\* ZeroDivisionError is propagating st.raised.
RECURSIVE refresh(_, _, _)

\* Value.refresh stamping the version without comparing it
Value_refresh_unchecked(st, n, k) ==
    [st EXCEPT !.ns[n].k = k, !.ns[n].grad = 0, !.ret = st.ns[n].data]

\* Value.refresh
Value_refresh(st, n, k) ==
    LET s1 == IF st.ns[n].k < k
              THEN [st EXCEPT !.ns[n].k = k, !.ns[n].grad = 0]
              ELSE st
    IN  [s1 EXCEPT !.ret = s1.ns[n].data]

\* Add.refresh recomputing without recording the version
Add_refresh_unstamped(st, n, k) ==
    IF st.ns[n].k >= k THEN [st EXCEPT !.ret = st.ns[n].data]
    ELSE LET s1 == refresh(st, st.ns[n].lhs, k)
             s2 == refresh(s1, st.ns[n].rhs, k)
             value == s1.ret + s2.ret
         IN  IF Stopped(s2) THEN s2
             ELSE [s2 EXCEPT !.ns[n].data = value, !.ns[n].grad = 0,
                             !.ret = value, !.recomputed = Append(@, n)]

\* Add.refresh
Add_refresh(st, n, k) ==
    IF st.ns[n].k >= k THEN [st EXCEPT !.ret = st.ns[n].data]
    ELSE LET s1 == refresh(st, st.ns[n].lhs, k)
             s2 == refresh(s1, st.ns[n].rhs, k)
             value == s1.ret + s2.ret
         IN  IF Stopped(s2) THEN s2
             ELSE [s2 EXCEPT !.ns[n].data = value, !.ns[n].k = k, !.ns[n].grad = 0,
                             !.ret = value, !.recomputed = Append(@, n)]

\* Mul.refresh with `>` for `>=`
Mul_refresh_strict(st, n, k) ==
    IF st.ns[n].k > k THEN [st EXCEPT !.ret = st.ns[n].data]
    ELSE LET s1 == refresh(st, st.ns[n].lhs, k)
             s2 == refresh(s1, st.ns[n].rhs, k)
             value == s1.ret * s2.ret
         IN  IF Stopped(s2) THEN s2
             ELSE [s2 EXCEPT !.ns[n].data = value, !.ns[n].k = k, !.ns[n].grad = 0,
                             !.ret = value, !.recomputed = Append(@, n)]

\* Mul.refresh
Mul_refresh(st, n, k) ==
    IF st.ns[n].k >= k THEN [st EXCEPT !.ret = st.ns[n].data]
    ELSE LET s1 == refresh(st, st.ns[n].lhs, k)
             s2 == refresh(s1, st.ns[n].rhs, k)
             value == s1.ret * s2.ret
         IN  IF Stopped(s2) THEN s2
             ELSE [s2 EXCEPT !.ns[n].data = value, !.ns[n].k = k, !.ns[n].grad = 0,
                             !.ret = value, !.recomputed = Append(@, n)]

\* Pow.refresh
Pow_refresh(st, n, k) ==
    IF st.ns[n].k >= k THEN [st EXCEPT !.ret = st.ns[n].data]
    ELSE LET s1 == refresh(st, st.ns[n].lhs, k)
             value == PyPow(s1.ret, st.ns[n].rhs)
         IN  IF Stopped(s1) THEN s1
             ELSE IF PowRaises(s1.ret, st.ns[n].rhs) THEN [s1 EXCEPT !.raised = TRUE]
             ELSE IF ~PowExact(s1.ret, st.ns[n].rhs) THEN [s1 EXCEPT !.inexact = TRUE]
             ELSE [s1 EXCEPT !.ns[n].data = value, !.ns[n].k = k, !.ns[n].grad = 0,
                             !.ret = value, !.recomputed = Append(@, n)]

\* ReLU.refresh
ReLU_refresh(st, n, k) ==
    IF st.ns[n].k >= k THEN [st EXCEPT !.ret = st.ns[n].data]
    ELSE LET s1 == refresh(st, st.ns[n].lhs, k)
             value == IF s1.ret < 0 THEN 0 ELSE s1.ret
         IN  IF Stopped(s1) THEN s1
             ELSE [s1 EXCEPT !.ns[n].data = value, !.ns[n].k = k, !.ns[n].grad = 0,
                             !.ret = value, !.recomputed = Append(@, n)]

\* node.refresh(k): dispatch on the node's class; no call is made once an
\* exception propagates
refresh(st, n, k) ==
    LET s0 == [st EXCEPT !.calls = @ + 1]
    IN  IF Stopped(st) THEN st
        ELSE
        CASE st.ns[n].op = "Value" -> Value_refresh(s0, n, k)
          [] st.ns[n].op = "Add" -> Add_refresh(s0, n, k)
          [] st.ns[n].op = "Mul" -> Mul_refresh(s0, n, k)
          [] st.ns[n].op = "Pow" -> Pow_refresh(s0, n, k)
          [] OTHER -> ReLU_refresh(s0, n, k)

RefreshCall(ns, n, k) ==
    refresh([ns |-> ns, ret |-> 0, calls |-> 0, recomputed |-> <<>>,
             raised |-> FALSE, inexact |-> FALSE], n, k)

\* ------------------------------------------------------------ _build_topo
\* The recursion threads a record t: the set t.visited and the list t.topo.
RECURSIVE build_topo(_, _, _)

\* Value._build_topo
Value_build_topo(ns, n, t) ==
    IF n \notin t.visited
    THEN [visited |-> t.visited \cup {n}, topo |-> Append(t.topo, n)]
    ELSE t

\* Add._build_topo and Mul._build_topo appending self before the operands
Binary_build_topo_preorder(ns, n, t) ==
    IF n \notin t.visited
    THEN LET t0 == [t EXCEPT !.visited = @ \cup {n}, !.topo = Append(@, n)]
             t1 == build_topo(ns, ns[n].rhs, t0)
         IN  build_topo(ns, ns[n].lhs, t1)
    ELSE t

\* Add._build_topo and Mul._build_topo: the right operand first
Binary_build_topo(ns, n, t) ==
    IF n \notin t.visited
    THEN LET t0 == [t EXCEPT !.visited = @ \cup {n}]
             t1 == build_topo(ns, ns[n].rhs, t0)
             t2 == build_topo(ns, ns[n].lhs, t1)
         IN  [t2 EXCEPT !.topo = Append(@, n)]
    ELSE t

\* Pow._build_topo and ReLU._build_topo
Unary_build_topo(ns, n, t) ==
    IF n \notin t.visited
    THEN LET t0 == [t EXCEPT !.visited = @ \cup {n}]
             t1 == build_topo(ns, ns[n].lhs, t0)
         IN  [t1 EXCEPT !.topo = Append(@, n)]
    ELSE t

build_topo(ns, n, t) ==
    CASE ns[n].op = "Value" -> Value_build_topo(ns, n, t)
      [] ns[n].op \in {"Add", "Mul"} -> Binary_build_topo(ns, n, t)
      [] OTHER -> Unary_build_topo(ns, n, t)

\* ---------------------------------------------------------------- backward
\* Add._backward
Add_backward(ns, n) ==
    LET grad == ns[n].grad
        n1 == [ns EXCEPT ![ns[n].lhs].grad = @ + grad]
    IN  [n1 EXCEPT ![ns[n].rhs].grad = @ + grad]

\* Mul._backward with `=` for `+=`
Mul_backward_overwrite(ns, n) ==
    LET grad == ns[n].grad
        lhs == ns[n].lhs
        rhs == ns[n].rhs
        n1 == [ns EXCEPT ![lhs].grad = ns[rhs].data * grad]
    IN  [n1 EXCEPT ![rhs].grad = n1[lhs].data * grad]

\* Mul._backward: both products read the data before either grad is written
Mul_backward(ns, n) ==
    LET grad == ns[n].grad
        lhs == ns[n].lhs
        rhs == ns[n].rhs
        n1 == [ns EXCEPT ![lhs].grad = @ + ns[rhs].data * grad]
    IN  [n1 EXCEPT ![rhs].grad = @ + n1[lhs].data * grad]

\* Pow._backward: lhs.data ** (rhs - 1) raises before anything is written
Pow_backward(ns, n) ==
    LET lhs == ns[n].lhs
        rhs == ns[n].rhs
    IN  IF PowRaises(ns[lhs].data, rhs - 1) THEN [Ok(ns) EXCEPT !.raised = TRUE]
        ELSE IF ~PowCoefExact(rhs, ns[lhs].data, rhs - 1) THEN [Ok(ns) EXCEPT !.inexact = TRUE]
        ELSE Ok([ns EXCEPT ![lhs].grad =
                    @ + PowCoef(rhs, ns[lhs].data, rhs - 1) * ns[n].grad])

\* ReLU._backward
ReLU_backward(ns, n) ==
    [ns EXCEPT ![ns[n].lhs].grad = @ + BoolMul(ns[n].data > 0, ns[n].grad)]

\* v._backward(): the arena afterwards and how the call ended
backward_step(ns, n) ==
    CASE ns[n].op = "Value" -> Ok(ns)
      [] ns[n].op = "Add" -> Ok(Add_backward(ns, n))
      [] ns[n].op = "Mul" -> Ok(Mul_backward(ns, n))
      [] ns[n].op = "Pow" -> Pow_backward(ns, n)
      [] OTHER -> Ok(ReLU_backward(ns, n))

RECURSIVE sweep(_, _, _)
\* for v in topo: v._backward(); an exception ends the loop
sweep(st, order, i) ==
    IF i > Len(order) \/ Stopped(st) THEN st
    ELSE sweep(backward_step(st.ns, order[i]), order, i + 1)

\* Node.backward, after the topological sort: seed, reverse, sweep
backward_from(ns, n, topo) ==
    sweep(Ok([ns EXCEPT ![n].grad = 1]), Reverse(topo), 1)

\* Node.backward
backward(ns, n) ==
    backward_from(ns, n, build_topo(ns, n, [visited |-> {}, topo |-> <<>>]).topo)

\* ------------------------------------------------------------ graph facts
RECURSIVE ReachFrom(_, _, _)
\* the nodes reachable from the nodes in `frontier` (`seen` already found)
ReachFrom(ns, frontier, seen) ==
    IF frontier = {} THEN seen
    ELSE LET new == UNION {SeqToSet(Children(ns, n)) : n \in frontier} \ seen
         IN  ReachFrom(ns, new, seen \cup new)

Reach(ns, n) == ReachFrom(ns, {n}, {n})

\* the operator of node n applied to its operands' current data
Apply(ns, n) ==
    CASE ns[n].op = "Value" -> ns[n].data
      [] ns[n].op = "Add" -> ns[ns[n].lhs].data + ns[ns[n].rhs].data
      [] ns[n].op = "Mul" -> ns[ns[n].lhs].data * ns[ns[n].rhs].data
      [] ns[n].op = "Pow" -> PyPow(ns[ns[n].lhs].data, ns[n].rhs)
      [] OTHER -> IF ns[ns[n].lhs].data < 0 THEN 0 ELSE ns[ns[n].lhs].data

\* ---------------------------------------------------------------- actions
Init ==
    /\ nodes = <<>>
    /\ nops = 0
    /\ passed = {}
    /\ last = NoCall
    /\ trav = NoTrav
    /\ comp = NoComp
    /\ regs = NoRegs

Ids == 1..Len(nodes)

Construct(nd) ==
    /\ Len(nodes) < MaxNodes
    /\ nops = 0 /\ trav.pc = "idle" /\ ~trav.rewired /\ comp.pc = "idle"
    /\ nodes' = Append(nodes, nd)
    /\ last' = [NoCall EXCEPT !.op = "new", !.node = Len(nodes) + 1]
    /\ UNCHANGED <<nops, passed, trav, comp, regs>>

NewValue == \E d \in LeafVals : Construct(ValueInit(d))
NewAdd == \E l \in Ids, r \in Ids : Construct(AddInit(nodes, l, r))
NewMul == \E l \in Ids, r \in Ids : Construct(MulInit(nodes, l, r))
\* Pow(lhs, rhs): `data = lhs.data ** rhs` raises before the node exists
NewPow ==
    \E l \in Ids, e \in Exps :
        \/ /\ PowExact(nodes[l].data, e)
           /\ Construct(PowInit(nodes, l, e))
        \/ /\ PowRaises(nodes[l].data, e)
           /\ Len(nodes) < MaxNodes
           /\ nops = 0 /\ trav.pc = "idle" /\ ~trav.rewired /\ comp.pc = "idle"
           /\ last' = [NoCall EXCEPT !.op = "new", !.node = l, !.k = e, !.raised = TRUE]
           /\ UNCHANGED <<nodes, nops, passed, trav, comp, regs>>
NewReLU == \E a \in Ids : Construct(ReLUInit(nodes, a))

\* Node.assign
assign(ns, n, value) ==
    [ns EXCEPT ![n].data = value, ![n].grad = 0, ![n].k = 0]

Assign ==
    \E n \in Ids, v \in AssignVals :
        /\ Len(nodes) + nops < MaxWork
        /\ nodes' = assign(nodes, n, v)
        /\ nops' = nops + 1
        /\ last' = [NoCall EXCEPT !.op = "assign", !.node = n, !.ret = v]
        /\ UNCHANGED <<passed, trav, comp, regs>>

Refresh ==
    \E n \in Ids, k \in Versions :
        LET r == RefreshCall(nodes, n, k) IN
        /\ Len(nodes) + nops < MaxWork
        /\ ~r.inexact
        /\ nodes' = r.ns
        /\ nops' = nops + 1
        /\ passed' = passed \cup {k}
        /\ last' = [NoCall EXCEPT !.op = "refresh", !.node = n, !.k = k,
                       !.ret = r.ret, !.cached = (nodes[n].k >= k),
                       !.fresh = (\A p \in passed : k > p),
                       !.calls = r.calls, !.recomputed = r.recomputed,
                       !.raised = r.raised]
        /\ UNCHANGED <<trav, comp, regs>>

Backward ==
    \E n \in Ids :
        LET t == build_topo(nodes, n, [visited |-> {}, topo |-> <<>>]).topo
            b == backward_from(nodes, n, t)
        IN
        /\ Len(nodes) + nops < MaxWork
        /\ ~b.inexact
        /\ nodes' = b.ns
        /\ nops' = nops + 1
        /\ last' = [NoCall EXCEPT !.op = "backward", !.node = n, !.topo = t,
                       !.zero = (\A m \in Reach(nodes, n) : nodes[m].grad = 0),
                       !.raised = b.raised]
        /\ UNCHANGED <<passed, trav, comp, regs>>

Next == NewValue \/ NewAdd \/ NewMul \/ NewPow \/ NewReLU
        \/ Assign \/ Refresh \/ Backward

Spec == Init /\ [][Next]_vars

\* ------------------------------------------ backward(), one step at a time
\* trav.stack is the call stack of _build_topo: a frame is the node whose
\* method runs and the place it has reached:
\*   "enter"  at `if self not in visited`
\*   "first"  before the first recursive call
\*   "second" before the second recursive call (Add, Mul)
\*   "append" at topo.append(self)
Frame(n, at) == [node |-> n, at |-> at]

Top(t) == t.stack[Len(t.stack)]

Pop(t) == [t EXCEPT !.stack = SubSeq(@, 1, Len(@) - 1), !.steps = @ + 1]

SetTop(t, at) == [t EXCEPT !.stack[Len(t.stack)].at = at, !.steps = @ + 1]

Call(t, n) == [t EXCEPT !.stack = Append(@, Frame(n, "enter")), !.calls = @ + 1]

\* _build_topo without `visited.add(self)`
EnterFrame_unmarked(t, ns) ==
    IF Top(t).node \in t.visited THEN Pop(t)
    ELSE SetTop(t, IF ns[Top(t).node].op = "Value" THEN "append" ELSE "first")

\* `if self not in visited: visited.add(self)`, else return
EnterFrame(t, ns) ==
    IF Top(t).node \in t.visited THEN Pop(t)
    ELSE [SetTop(t, IF ns[Top(t).node].op = "Value" THEN "append" ELSE "first")
            EXCEPT !.visited = @ \cup {Top(t).node}]

\* the first recursive call: self._rhs (Add, Mul), self._lhs (Pow), self._arg
FirstCall(t, ns) ==
    LET n == Top(t).node IN
    IF ns[n].op \in {"Add", "Mul"}
    THEN Call(SetTop(t, "second"), ns[n].rhs)
    ELSE Call(SetTop(t, "append"), ns[n].lhs)

\* the second recursive call of Add and Mul: self._lhs
SecondCall(t, ns) == Call(SetTop(t, "append"), ns[Top(t).node].lhs)

\* topo.append(self) and return
AppendFrame(t) == [Pop(t) EXCEPT !.topo = Append(@, Top(t).node)]

\* a caller assigns node._lhs / node._rhs / node._arg of a constructed node,
\* the only way a graph can come to hold a cycle
Rewire ==
    \E n \in Ids, m \in Ids, f \in {"lhs", "rhs"} :
        /\ trav.pc = "idle" /\ ~trav.rewired /\ nops = 0 /\ comp.pc = "idle"
        /\ nodes[n].op # "Value"
        /\ f = "rhs" => nodes[n].op \in {"Add", "Mul"}
        /\ m >= n
        /\ nodes' = [nodes EXCEPT ![n][f] = m]
        /\ trav' = [trav EXCEPT !.rewired = TRUE]
        /\ last' = [NoCall EXCEPT !.op = "rewire", !.node = n]
        /\ UNCHANGED <<nops, passed, comp, regs>>

\* backward(): topo = [], visited = set(), self._build_topo(visited, topo)
BackwardBegin ==
    \E n \in Ids :
        /\ trav.pc = "idle" /\ nops = 0 /\ comp.pc = "idle"
        /\ trav' = [trav EXCEPT !.pc = "topo", !.root = n,
                                !.stack = <<Frame(n, "enter")>>, !.calls = 1]
        /\ last' = [NoCall EXCEPT !.op = "backward", !.node = n]
        /\ UNCHANGED <<nodes, nops, passed, comp, regs>>

InTopo(at) == trav.pc = "topo" /\ trav.stack # <<>> /\ Top(trav).at = at

TopoEnter ==
    /\ InTopo("enter")
    /\ trav' = EnterFrame(trav, nodes)
    /\ UNCHANGED <<nodes, nops, passed, last, comp, regs>>

TopoFirst ==
    /\ InTopo("first")
    /\ trav' = FirstCall(trav, nodes)
    /\ UNCHANGED <<nodes, nops, passed, last, comp, regs>>

TopoSecond ==
    /\ InTopo("second")
    /\ trav' = SecondCall(trav, nodes)
    /\ UNCHANGED <<nodes, nops, passed, last, comp, regs>>

TopoAppend ==
    /\ InTopo("append")
    /\ trav' = AppendFrame(trav)
    /\ UNCHANGED <<nodes, nops, passed, last, comp, regs>>

\* _build_topo has returned: self.grad = 1.0, topo.reverse(), the sweep
BackwardSweep ==
    /\ trav.pc = "topo" /\ trav.stack = <<>>
    /\ ~backward_from(nodes, trav.root, trav.topo).inexact
    /\ nodes' = backward_from(nodes, trav.root, trav.topo).ns
    /\ trav' = [trav EXCEPT !.pc = "done"]
    /\ last' = [last EXCEPT !.topo = trav.topo,
                            !.raised = backward_from(nodes, trav.root, trav.topo).raised]
    /\ UNCHANGED <<nops, passed, comp, regs>>

TopoStep == TopoEnter \/ TopoFirst \/ TopoSecond \/ TopoAppend

NextTopo == NewValue \/ NewAdd \/ NewMul \/ NewPow \/ NewReLU \/ Rewire
            \/ BackwardBegin \/ TopoEnter \/ TopoFirst \/ TopoSecond
            \/ TopoAppend \/ BackwardSweep

SpecTopo == Init /\ [][NextTopo]_vars

\* ------------------------------------------------------------ compile()
\* value_map is a function from nodes to slot indices 0, 1, ...
MapLen(vm) == Cardinality(DOMAIN vm)

MapPut(vm, n, i) == [m \in DOMAIN vm \cup {n} |-> IF m = n THEN i ELSE vm[m]]

\* get_index without the `if node not in value_map` test
get_index_fresh(vm, n) == MapPut(vm, n, MapLen(vm))

\* compile.get_index: the node's index, a new one (len(value_map)) when it
\* has none.  The result is the map afterwards; the index is its value at n.
get_index(vm, n) == IF n \in DOMAIN vm THEN vm ELSE MapPut(vm, n, MapLen(vm))

\* `if node not in value_map: value_map[node] = len(value_map)`
register(vm, n) == IF n \in DOMAIN vm THEN vm ELSE MapPut(vm, n, MapLen(vm))

RECURSIVE register_all(_, _, _)
\* `for node in list: if node not in value_map: ...`
register_all(vm, list, i) ==
    IF i > Len(list) THEN vm ELSE register_all(register(vm, list[i]), list, i + 1)

\* One line of the generated eval_model.  d, a, b are slot indices, e and f
\* literal exponents:
\*   "gzero"  g<d> = 0.0                    "gseed"  g<d> = 1.0
\*   "add"    v<d> = v<a> + v<b>            "gadd"   g<d> += g<b>
\*   "mul"    v<d> = v<a> * v<b>            "gmul"   g<d> += v<a> * g<b>
\*   "pow"    v<d> = v<a> ** e              "gpow"   g<d> += (e * v<a> ** f) * g<b>
\*   "relu"   v<d> = 0.0 if v<a> < 0.0 else v<a>
\*   "grelu"  g<d> += (v<a> > 0.0) * g<b>   "update" v<d> -= learning_rate * g<d>
Line(ins, d, a, b, e, f) == [ins |-> ins, d |-> d, a |-> a, b |-> b, e |-> e, f |-> f]

Emit(cs, line) == [cs EXCEPT !.code = Append(@, line)]

RECURSIVE forward(_, _, _)
\* compile.forward; cs holds value_map, visited and code
forward(ns, cs, n) ==
    IF n \in cs.visited THEN cs
    ELSE
    LET c0 == [cs EXCEPT !.visited = @ \cup {n}, !.value_map = get_index(@, n)]
        index == c0.value_map[n]
        lhs == ns[n].lhs
        rhs == ns[n].rhs
        m1 == get_index(c0.value_map, lhs)
        lhs_index == m1[lhs]
    IN  CASE ns[n].op = "Value" -> Emit(c0, Line("gzero", index, 0, 0, 0, 0))
          [] ns[n].op \in {"Add", "Mul"} ->
                LET m2 == get_index(m1, rhs)
                    rhs_index == m2[rhs]
                    c1 == forward(ns, [c0 EXCEPT !.value_map = m2], lhs)
                    c2 == forward(ns, c1, rhs)
                    ins == IF ns[n].op = "Add" THEN "add" ELSE "mul"
                IN  Emit(Emit(c2, Line(ins, index, lhs_index, rhs_index, 0, 0)),
                         Line("gzero", index, 0, 0, 0, 0))
          [] ns[n].op = "Pow" ->
                LET c1 == forward(ns, [c0 EXCEPT !.value_map = m1], lhs)
                IN  Emit(Emit(c1, Line("pow", index, lhs_index, 0, rhs, 0)),
                         Line("gzero", index, 0, 0, 0, 0))
          [] OTHER ->
                LET c1 == forward(ns, [c0 EXCEPT !.value_map = m1], lhs)
                IN  Emit(Emit(c1, Line("relu", index, lhs_index, 0, 0, 0)),
                         Line("gzero", index, 0, 0, 0, 0))

\* compile.backward with Mul's gradient lines multiplying by the operand's
\* own value instead of the other operand's
backward_node_swapped(ns, cs, n) ==
    LET c0 == [cs EXCEPT !.value_map = get_index(@, n)]
        index == c0.value_map[n]
        lhs == ns[n].lhs
        rhs == ns[n].rhs
        m1 == get_index(c0.value_map, lhs)
        lhs_index == m1[lhs]
    IN  CASE ns[n].op = "Value" -> c0
          [] ns[n].op = "Add" ->
                LET m2 == get_index(m1, rhs)
                    rhs_index == m2[rhs]
                IN  Emit(Emit([c0 EXCEPT !.value_map = m2],
                              Line("gadd", lhs_index, 0, index, 0, 0)),
                         Line("gadd", rhs_index, 0, index, 0, 0))
          [] ns[n].op = "Mul" ->
                LET m2 == get_index(m1, rhs)
                    rhs_index == m2[rhs]
                IN  Emit(Emit([c0 EXCEPT !.value_map = m2],
                              Line("gmul", lhs_index, lhs_index, index, 0, 0)),
                         Line("gmul", rhs_index, rhs_index, index, 0, 0))
          [] ns[n].op = "Pow" ->
                Emit([c0 EXCEPT !.value_map = m1],
                     Line("gpow", lhs_index, lhs_index, index, rhs, rhs - 1))
          [] OTHER ->
                Emit([c0 EXCEPT !.value_map = m1],
                     Line("grelu", lhs_index, index, index, 0, 0))

\* the body of compile.backward's loop for one node of the reversed order
backward_node(ns, cs, n) ==
    LET c0 == [cs EXCEPT !.value_map = get_index(@, n)]
        index == c0.value_map[n]
        lhs == ns[n].lhs
        rhs == ns[n].rhs
        m1 == get_index(c0.value_map, lhs)
        lhs_index == m1[lhs]
    IN  CASE ns[n].op = "Value" -> c0
          [] ns[n].op = "Add" ->
                LET m2 == get_index(m1, rhs)
                    rhs_index == m2[rhs]
                IN  Emit(Emit([c0 EXCEPT !.value_map = m2],
                              Line("gadd", lhs_index, 0, index, 0, 0)),
                         Line("gadd", rhs_index, 0, index, 0, 0))
          [] ns[n].op = "Mul" ->
                LET m2 == get_index(m1, rhs)
                    rhs_index == m2[rhs]
                IN  Emit(Emit([c0 EXCEPT !.value_map = m2],
                              Line("gmul", lhs_index, rhs_index, index, 0, 0)),
                         Line("gmul", rhs_index, lhs_index, index, 0, 0))
          [] ns[n].op = "Pow" ->
                Emit([c0 EXCEPT !.value_map = m1],
                     Line("gpow", lhs_index, lhs_index, index, rhs, rhs - 1))
          [] OTHER ->
                Emit([c0 EXCEPT !.value_map = m1],
                     Line("grelu", lhs_index, index, index, 0, 0))

RECURSIVE backward_loop(_, _, _, _)
\* `for node in topo:` of compile.backward
backward_loop(ns, cs, order, i) ==
    IF i > Len(order) THEN cs
    ELSE backward_loop(ns, backward_node(ns, cs, order[i]), order, i + 1)

\* compile.backward
backward_gen(ns, cs, n, total_loss) ==
    LET t == build_topo(ns, n, [visited |-> cs.visited, topo |-> <<>>])
        c0 == [cs EXCEPT !.visited = t.visited, !.value_map = get_index(@, total_loss)]
        c1 == Emit(c0, Line("gseed", c0.value_map[total_loss], 0, 0, 0, 0))
    IN  backward_loop(ns, c1, Reverse(t.topo), 1)

\* the node whose data initialises slot i: `v{index} = {value.data!r}` for
\* value, index in value_map.items()
SlotNode(vm, i) == CHOOSE n \in DOMAIN vm : vm[n] = i

\* construct(): the initial v<i> and g<i>
init_v(ns, vm) == [i \in 0..(MapLen(vm) - 1) |-> ns[SlotNode(vm, i)].data]

init_g(vm) == [i \in 0..(MapLen(vm) - 1) |-> 0]

\* the targets of `v1, _, v2, = inputs`: a slot index, or -1 for `_`
input_vals(vm, inputs) ==
    [i \in 1..Len(inputs) |-> IF inputs[i] \in DOMAIN vm THEN vm[inputs[i]] ELSE -1]

\* the slots of `g1 = g2 = 0.0`
input_grads(vm, inputs) == {vm[inputs[i]] : i \in {j \in 1..Len(inputs) : inputs[j] \in DOMAIN vm}}

\* ------------------------------------------------- the generated procedures
\* one line of eval_model run on the variables r = [v, g]; a line that
\* raises ZeroDivisionError assigns nothing
exec_line(r, l, learning_rate) ==
    CASE l.ins = "gzero" -> [r EXCEPT !.g[l.d] = 0]
      [] l.ins = "gseed" -> [r EXCEPT !.g[l.d] = 1]
      [] l.ins = "add" -> [r EXCEPT !.v[l.d] = r.v[l.a] + r.v[l.b]]
      [] l.ins = "mul" -> [r EXCEPT !.v[l.d] = r.v[l.a] * r.v[l.b]]
      [] l.ins = "pow" ->
            IF PowRaises(r.v[l.a], l.e) THEN [r EXCEPT !.raised = TRUE]
            ELSE IF ~PowExact(r.v[l.a], l.e) THEN [r EXCEPT !.inexact = TRUE]
            ELSE [r EXCEPT !.v[l.d] = PyPow(r.v[l.a], l.e)]
      [] l.ins = "relu" -> [r EXCEPT !.v[l.d] = IF r.v[l.a] < 0 THEN 0 ELSE r.v[l.a]]
      [] l.ins = "gadd" -> [r EXCEPT !.g[l.d] = @ + r.g[l.b]]
      [] l.ins = "gmul" -> [r EXCEPT !.g[l.d] = @ + r.v[l.a] * r.g[l.b]]
      [] l.ins = "gpow" ->
            IF PowRaises(r.v[l.a], l.f) THEN [r EXCEPT !.raised = TRUE]
            ELSE IF ~PowCoefExact(l.e, r.v[l.a], l.f) THEN [r EXCEPT !.inexact = TRUE]
            ELSE [r EXCEPT !.g[l.d] = @ + PowCoef(l.e, r.v[l.a], l.f) * r.g[l.b]]
      [] l.ins = "grelu" -> [r EXCEPT !.g[l.d] = @ + BoolMul(r.v[l.a] > 0, r.g[l.b])]
      [] OTHER -> [r EXCEPT !.v[l.d] = @ - learning_rate * r.g[l.d]]

RECURSIVE exec(_, _, _, _)
exec(r, code, i, learning_rate) ==
    IF i > Len(code) \/ Stopped(r) THEN r
    ELSE exec(exec_line(r, code[i], learning_rate), code, i + 1, learning_rate)

\* eval_model(learning_rate): the variables afterwards; it returns v<c.ret>
\* unless a line raised
eval_model(c, r, learning_rate) ==
    exec([r EXCEPT !.raised = FALSE, !.inexact = FALSE], c.code, 1, learning_rate)

\* get_scores() returning the g slots for the v slots
get_scores_grads(c, r) == [i \in 1..Len(c.get_scores) |-> r.g[c.get_scores[i]]]

\* get_scores()
get_scores(c, r) == [i \in 1..Len(c.get_scores) |-> r.v[c.get_scores[i]]]

\* get_parameters()
get_parameters(c, r) ==
    [i \in 1..Len(c.get_parameters) |->
        <<r.v[c.get_parameters[i]], r.g[c.get_parameters[i]]>>]

RECURSIVE unpack(_, _, _, _)
\* `v1, _, v2, = inputs`: the targets are assigned from left to right
unpack(v, vals, inputs, i) ==
    IF i > Len(vals) THEN v
    ELSE unpack(IF vals[i] >= 0 THEN [v EXCEPT ![vals[i]] = inputs[i]] ELSE v,
                vals, inputs, i + 1)

\* set_inputs(inputs) without the `g1 = g2 = 0.0` line
set_inputs_keepgrad(c, r, inputs) ==
    IF c.inputs = <<>> THEN [r |-> r, err |-> FALSE]
    ELSE IF Len(inputs) # Len(c.vals) THEN [r |-> r, err |-> TRUE]
    ELSE [r |-> [r EXCEPT !.v = unpack(r.v, c.vals, inputs, 1)], err |-> FALSE]

\* set_inputs(inputs): `pass` when compile was given no inputs; a ValueError,
\* before anything is assigned, when the lengths differ
set_inputs(c, r, inputs) ==
    IF c.inputs = <<>> THEN [r |-> r, err |-> FALSE]
    ELSE IF Len(inputs) # Len(c.vals) THEN [r |-> r, err |-> TRUE]
    ELSE [r |-> [r EXCEPT !.v = unpack(r.v, c.vals, inputs, 1),
                          !.g = [i \in DOMAIN r.g |-> IF i \in c.grads THEN 0 ELSE r.g[i]]],
          err |-> FALSE]

\* ------------------------------------------------- the interpreted path
RECURSIVE update_all(_, _, _, _)
\* `for p in parameters: p.data -= learning_rate * p.grad`
update_all(ns, parameters, i, learning_rate) ==
    IF i > Len(parameters) THEN ns
    ELSE update_all([ns EXCEPT ![parameters[i]].data = @ - learning_rate * ns[parameters[i]].grad],
                    parameters, i + 1, learning_rate)

RECURSIVE assign_all(_, _, _, _)
\* `for node, value in zip(inputs, values): node.assign(value)`
assign_all(ns, inputs, values, i) ==
    IF i > Len(inputs) THEN ns
    ELSE assign_all(assign(ns, inputs[i], values[i]), inputs, values, i + 1)

\* ------------------------------------------------------- compile's actions
Leaves == {n \in Ids : nodes[n].op = "Value"}

SeqsUpTo(S, m) == UNION {[1..j -> S] : j \in 0..m}

Distinct(s) == \A i, j \in 1..Len(s) : i # j => s[i] # s[j]

CompileWork(c, r) ==
    Len(nodes) + Len(c.parameters) + Len(c.scores) + Len(c.inputs) + r.steps

\* model.parameters() is a list of distinct Value leaves (MLP is defined
\* outside these sources); scores are distinct nodes, inputs any leaves.
\* compile(model, scores, total_loss, inputs) is called: parameters =
\* list(model.parameters()), then the parameters, the scores and the loss
\* are given their slots
CompileBegin ==
    \E parameters \in SeqsUpTo(Leaves, MaxCompileWork - Len(nodes) - 1) :
    \E scores \in SeqsUpTo(Ids, MaxCompileWork - Len(nodes) - 1 - Len(parameters)) :
    \E inputs \in SeqsUpTo(Leaves, MaxCompileWork - Len(nodes) - 1
                                      - Len(parameters) - Len(scores)) :
    \E total_loss \in Ids :
        /\ comp.pc = "idle" /\ trav.pc = "idle" /\ ~trav.rewired /\ nops = 0
        /\ Len(nodes) <= MaxCompileNodes
        /\ Distinct(parameters) /\ Distinct(scores)
        /\ comp' = [comp EXCEPT !.pc = "forward", !.parameters = parameters,
                      !.scores = scores, !.total_loss = total_loss, !.inputs = inputs,
                      !.value_map = register(register_all(register_all(@,
                                        parameters, 1), scores, 1), total_loss)]
        /\ last' = [NoCall EXCEPT !.op = "compile", !.node = total_loss]
        /\ UNCHANGED <<nodes, nops, passed, trav, regs>>

\* `forward(total_loss)`, `visited.clear()`
GenForward ==
    /\ comp.pc = "forward"
    /\ comp' = [forward(nodes, comp, comp.total_loss) EXCEPT
                    !.pc = "backward", !.visited = {}]
    /\ UNCHANGED <<nodes, nops, passed, last, trav, regs>>

\* `backward(total_loss)`
GenBackward ==
    /\ comp.pc = "backward"
    /\ comp' = [backward_gen(nodes, comp, comp.total_loss, comp.total_loss) EXCEPT
                    !.pc = "assemble"]
    /\ UNCHANGED <<nodes, nops, passed, last, trav, regs>>

\* the initial values, the parameter updates, the return, the three other
\* procedures; then exec(source) and construct()
Assemble ==
    LET vm == comp.value_map IN
    /\ comp.pc = "assemble"
    /\ comp' = [comp EXCEPT
            !.pc = "ready",
            !.code = @ \o [i \in 1..Len(comp.parameters) |->
                              Line("update", vm[comp.parameters[i]], 0, 0, 0, 0)],
            !.ret = vm[comp.total_loss],
            !.get_scores = [i \in 1..Len(comp.scores) |-> vm[comp.scores[i]]],
            !.get_parameters = [i \in 1..Len(comp.parameters) |-> vm[comp.parameters[i]]],
            !.vals = input_vals(vm, comp.inputs),
            !.grads = input_grads(vm, comp.inputs),
            !.data0 = [n \in 1..Len(nodes) |-> nodes[n].data]]
    /\ regs' = [regs EXCEPT !.v = init_v(nodes, vm), !.g = init_g(vm)]
    /\ UNCHANGED <<nodes, nops, passed, last, trav>>

Abs(x) == IF x < 0 THEN -x ELSE x

\* One training step on both paths: eval_step(learning_rate) on the bundle
\* and, on the node objects, total_loss.refresh(k) with the next k,
\* total_loss.backward() and the parameter update; a ZeroDivisionError ends
\* the interpreted step where it is raised.
EvalStep ==
    \E learning_rate \in Rates :
        LET r1 == eval_model(comp, regs, learning_rate)
            f == RefreshCall(nodes, comp.total_loss, regs.k + 1)
            b == IF f.raised THEN [Ok(f.ns) EXCEPT !.raised = TRUE]
                 ELSE backward(f.ns, comp.total_loss)
        IN
        /\ comp.pc = "ready"
        /\ CompileWork(comp, regs) < MaxCompileWork
        /\ \A i \in DOMAIN regs.v : Abs(regs.v[i]) <= MaxLeaf
        /\ \A n \in Leaves : Abs(nodes[n].data) <= MaxLeaf
        /\ ~r1.inexact /\ ~f.inexact /\ ~b.inexact
        /\ regs' = [r1 EXCEPT !.fwd = regs.v, !.steps = @ + 1, !.k = @ + 1]
        /\ nodes' = IF b.raised THEN b.ns
                     ELSE update_all(b.ns, comp.parameters, 1, learning_rate)
        /\ last' = [NoCall EXCEPT !.op = "eval_step", !.node = comp.total_loss,
                       !.k = learning_rate, !.ret = r1.v[comp.ret], !.loss = f.ret,
                       !.raised = r1.raised, !.iraised = b.raised]
        /\ UNCHANGED <<nops, passed, trav, comp>>

\* set_inputs(values) on the bundle and node.assign(value) on the input nodes
SetInputs ==
    \E values \in [1..Len(comp.inputs) -> AssignVals] \cup {<<>>} :
        LET s == set_inputs(comp, regs, values) IN
        /\ comp.pc = "ready"
        /\ CompileWork(comp, regs) < MaxCompileWork
        /\ regs' = [s.r EXCEPT !.steps = @ + 1]
        /\ nodes' = IF s.err \/ Len(values) # Len(comp.inputs) THEN nodes
                     ELSE assign_all(nodes, comp.inputs, values, 1)
        /\ last' = [NoCall EXCEPT !.op = "set_inputs", !.values = values,
                       !.err = s.err]
        /\ UNCHANGED <<nops, passed, trav, comp>>

NextCompile == NewValue \/ NewAdd \/ NewMul \/ NewPow \/ NewReLU
               \/ CompileBegin \/ GenForward \/ GenBackward \/ Assemble
               \/ EvalStep \/ SetInputs

SpecCompile == Init /\ [][NextCompile]_vars

\* ------------------------------------------------------------------ claims
RECURSIVE SumSeq(_)
SumSeq(s) == IF s = <<>> THEN 0 ELSE Head(s) + SumSeq(Tail(s))

\* local partial derivative of node n with respect to its i-th operand edge
Partial(ns, n, i) ==
    CASE ns[n].op = "Add" -> 1
      [] ns[n].op = "Mul" -> IF i = 1 THEN ns[ns[n].rhs].data ELSE ns[ns[n].lhs].data
      [] ns[n].op = "Pow" -> PowCoef(ns[n].rhs, ns[ns[n].lhs].data, ns[n].rhs - 1)
      [] ns[n].op = "ReLU" -> IF ns[n].data > 0 THEN 1 ELSE 0
      [] OTHER -> 0

RECURSIVE PathSum(_, _, _)
\* sum over all paths from n to m of the product of the partials on the path
PathSum(ns, n, m) ==
    IF n = m THEN 1
    ELSE SumSeq([i \in 1..Len(Children(ns, n)) |->
                    Partial(ns, n, i) * PathSum(ns, Children(ns, n)[i], m)])

IsXXplusX ==
    /\ Len(nodes) = 3
    /\ nodes[1].op = "Value" /\ nodes[1].data = 3
    /\ nodes[2].op = "Mul" /\ nodes[2].lhs = 1 /\ nodes[2].rhs = 1
    /\ nodes[3].op = "Add" /\ nodes[3].lhs = 2 /\ nodes[3].rhs = 1
    /\ \A m \in 1..3 : nodes[m].data = Apply(nodes, m)

\* a reachable Pow node whose local partial exponent * base.data **
\* (exponent - 1) is undefined: base.data = 0 and exponent <= 0
PartialUndefined(ns, root) ==
    \E m \in Reach(ns, root) :
        ns[m].op = "Pow" /\ PowRaises(ns[ns[m].lhs].data, ns[m].rhs - 1)

\* C2: gradient accumulation law.  After one backward() from a root whose
\* reachable nodes all had grad 0, every reachable leaf's grad is the sum
\* over the paths from the root of the product of the local partials; for
\* y = x*x + x at x = 3, y.data = 12 and x.grad = 7.  The call raises
\* ZeroDivisionError exactly when one of the local partials is undefined,
\* where the sum is undefined too.
C2_GradientAccumulation ==
    (last.op = "backward" /\ last.zero) =>
        /\ last.raised <=> PartialUndefined(nodes, last.node)
        /\ ~last.raised =>
              \A m \in Reach(nodes, last.node) :
                  nodes[m].op = "Value" => nodes[m].grad = PathSum(nodes, last.node, m)
        /\ (IsXXplusX /\ last.node = 3) =>
              (nodes[3].data = 12 /\ nodes[1].grad = 7)

C2_Witness ==
    /\ last.op = "backward" /\ last.zero /\ last.node = 3
    /\ IsXXplusX /\ nodes[3].data = 12 /\ nodes[1].grad = 7

Pos(s, x) == CHOOSE i \in 1..Len(s) : s[i] = x

TopoLaw(ns, root, topo) ==
    /\ SeqToSet(topo) = Reach(ns, root)
    /\ Len(topo) = Cardinality(Reach(ns, root))
    /\ \A p \in Reach(ns, root) : \A i \in 1..Len(Children(ns, p)) :
          Pos(topo, Children(ns, p)[i]) < Pos(topo, p)

\* C3: topological order law.  The list _build_topo produces from a root
\* holds every reachable node exactly once, each child before its parents;
\* so in backward()'s reversed sweep every parent runs before the node.
C3_TopologicalOrder ==
    last.op = "backward" =>
        /\ TopoLaw(nodes, last.node, last.topo)
        /\ LET order == Reverse(last.topo) IN
           \A p \in Reach(nodes, last.node) : \A i \in 1..Len(Children(nodes, p)) :
               Pos(order, p) < Pos(order, Children(nodes, p)[i])

C3_Witness ==
    /\ last.op = "backward" /\ Len(last.topo) = 3
    /\ \E p \in 1..Len(nodes) :
          nodes[p].op \in {"Add", "Mul"} /\ nodes[p].lhs # nodes[p].rhs
          /\ nodes[nodes[p].lhs].op # "Value" /\ nodes[p].rhs \in Reach(nodes, nodes[p].lhs)

Composites(ns, S) == {m \in S : ns[m].op # "Value"}

Count(s, x) == Cardinality({i \in 1..Len(s) : s[i] = x})

\* node m's data is its operator applied to its operands' data
Computed(ns, m) ==
    /\ ns[m].op = "Pow" => PowExact(ns[ns[m].lhs].data, ns[m].rhs)
    /\ ns[m].data = Apply(ns, m)

RefreshPost ==
    /\ \A m \in Reach(nodes, last.node) :
          /\ Computed(nodes, m)
          /\ nodes[m].grad = 0
          /\ nodes[m].k = last.k
    /\ \A m \in Composites(nodes, Reach(nodes, last.node)) : Count(last.recomputed, m) = 1
    /\ SeqToSet(last.recomputed) = Composites(nodes, Reach(nodes, last.node))
    /\ last.ret = nodes[last.node].data

\* C4 as stated: refresh(k) with k larger than every version passed to
\* refresh before recomputes every reachable composite node exactly once.
C4_Original == (last.op = "refresh" /\ last.fresh /\ ~last.raised) => RefreshPost

\* a reachable Pow node with a negative exponent whose base is 0
PowUndefined(ns, root) ==
    \E m \in Reach(ns, root) :
        ns[m].op = "Pow" /\ PowRaises(ns[ns[m].lhs].data, ns[m].rhs)

\* C4 (amended): versioned refresh correctness.  refresh(k) with k >= 1 and
\* k larger than every version passed to refresh before, when it returns,
\* has recomputed each reachable composite node exactly once and leaves
\* every reachable node with data = its operator applied to its operands'
\* data, grad = 0 and version = k; the call returns root.data.  It raises
\* ZeroDivisionError, and only then, when a reachable Pow node with a
\* negative exponent gets a base of 0.
C4_VersionedRefresh ==
    (last.op = "refresh" /\ last.fresh /\ last.k >= 1) =>
        /\ ~last.raised => RefreshPost
        /\ last.raised => PowUndefined(nodes, last.node)

\* a refresh after an assign, on a root that reaches a composite node through
\* two operand edges
C4_Witness ==
    /\ last.op = "refresh" /\ last.fresh /\ last.k >= 1 /\ ~last.raised
    /\ nodes[last.node].op \in {"Add", "Mul"}
    /\ nodes[last.node].lhs = nodes[last.node].rhs
    /\ nodes[nodes[last.node].lhs].op # "Value"
    /\ \E m \in Reach(nodes, last.node) : nodes[m].op = "Value" /\ nodes[m].data \in AssignVals

\* C5: refresh idempotence.  refresh(k) on a node whose version is already
\* >= k returns the cached data, recomputes nothing, makes no recursive call
\* and changes no node's data, grad or version.
C5_RefreshIdempotence ==
    [][(last'.op = "refresh" /\ last'.cached /\ nops' = nops + 1) =>
          /\ nodes' = nodes
          /\ last'.ret = nodes[last'.node].data
          /\ last'.recomputed = <<>>
          /\ last'.calls = 1]_vars

\* a second refresh(k) of a composite node with the same k >= 1
C5_Witness ==
    /\ last.op = "refresh" /\ last.cached /\ last.k >= 1
    /\ nodes[last.node].op # "Value" /\ nodes[last.node].k = last.k

VersionMonotone == \A n \in DOMAIN nodes : nodes'[n].k >= nodes[n].k

\* C9 as stated: no operation ever decreases a node's version.
C9_Original == [][VersionMonotone]_vars

\* C9 (amended): construction, refresh(k) and backward never decrease a
\* node's version; assign resets the assigned node's version to 0 and
\* leaves the other nodes' versions alone.
C9_VersionMonotone ==
    [][IF last'.op = "assign" /\ nops' = nops + 1
       THEN /\ nodes'[last'.node].k = 0
            /\ \A n \in DOMAIN nodes \ {last'.node} : nodes'[n].k = nodes[n].k
       ELSE VersionMonotone]_vars

\* a node whose version was raised by a first refresh is refreshed again
C9_Witness ==
    /\ last.op = "refresh" /\ ~last.fresh /\ last.k >= 1
    /\ \E n \in DOMAIN nodes : nodes[n].k > last.k

\* ------------------------------------------------ claims on the compiler
InterpretedParameters ==
    [i \in 1..Len(comp.parameters) |->
        <<nodes[comp.parameters[i]].data, nodes[comp.parameters[i]].grad>>]

\* C1 as stated: at every step eval_step returns loss.data as it is after
\* the interpreted step's refresh, and get_parameters() is the list of the
\* interpreted (p.data, p.grad).
C1_Original ==
    (comp.pc = "ready" /\ last.op = "eval_step" /\ ~last.raised /\ ~last.iraised) =>
        /\ last.ret = last.loss
        /\ get_parameters(comp, regs) = InterpretedParameters

\* C1 (amended): compiler equivalence.  At every step eval_step returns
\* loss.data as it is at the end of the interpreted step, after the
\* parameter update; this is loss.data after the refresh unless the loss
\* node is itself a parameter.  get_parameters() equals the interpreted
\* (p.data, p.grad) in the original parameter order.
C1_CompilerEquivalence ==
    comp.pc = "ready" =>
        /\ get_parameters(comp, regs) = InterpretedParameters
        /\ last.op = "eval_step" =>
              /\ last.raised <=> last.iraised
              /\ ~last.raised =>
                    /\ last.ret = nodes[comp.total_loss].data
                    /\ comp.total_loss \notin SeqToSet(comp.parameters)
                          => last.ret = last.loss

\* two steps on a loss with a shared operand and two parameters
C1_Witness ==
    /\ comp.pc = "ready" /\ last.op = "eval_step" /\ regs.k >= 2 /\ ~last.raised
    /\ Len(comp.parameters) >= 1
    /\ nodes[comp.total_loss].op = "Mul"
    /\ nodes[comp.total_loss].lhs = nodes[comp.total_loss].rhs
    /\ \E i \in 1..Len(comp.parameters) : get_parameters(comp, regs)[i][2] # 0
    /\ last.ret # comp.data0[comp.total_loss]

HasSlot(i) == comp.inputs[i] \in DOMAIN comp.value_map

InputSlots == {comp.value_map[comp.inputs[i]] : i \in {j \in 1..Len(comp.inputs) : HasSlot(j)}}

IsSetInputs ==
    /\ last'.op = "set_inputs" /\ regs'.steps = regs.steps + 1
    /\ Len(last'.values) = Len(comp.inputs)

OtherSlotsUnchanged ==
    \A s \in DOMAIN regs.v \ InputSlots : regs'.v[s] = regs.v[s] /\ regs'.g[s] = regs.g[s]

\* C6 as stated: after set_inputs(values) every position with a slot holds
\* its value.
C6_Original ==
    [][IsSetInputs =>
          /\ ~last'.err
          /\ \A i \in 1..Len(comp.inputs) : HasSlot(i) =>
                /\ regs'.v[comp.value_map[comp.inputs[i]]] = last'.values[i]
                /\ regs'.g[comp.value_map[comp.inputs[i]]] = 0
          /\ OtherSlotsUnchanged]_vars

\* C6 (amended): set_inputs postcondition.  set_inputs(values) with
\* len(values) = len(I) raises no error; for every position i whose node
\* has a slot and does not occur again later in I, the node's value slot
\* is values[i]; the gradient slot of every input node with a slot is 0;
\* positions without a slot are discarded and every other slot is unchanged.
C6_SetInputs ==
    [][IsSetInputs =>
          /\ ~last'.err
          /\ \A i \in 1..Len(comp.inputs) : HasSlot(i) =>
                /\ (\A j \in (i + 1)..Len(comp.inputs) : comp.inputs[j] # comp.inputs[i])
                      => regs'.v[comp.value_map[comp.inputs[i]]] = last'.values[i]
                /\ regs'.g[comp.value_map[comp.inputs[i]]] = 0
          /\ OtherSlotsUnchanged]_vars

\* set_inputs after an eval_step, one input with a slot whose gradient was
\* not 0 and one without a slot
C6_Witness ==
    /\ comp.pc = "ready" /\ last.op = "set_inputs" /\ ~last.err /\ regs.k >= 1
    /\ Len(comp.inputs) = 2 /\ comp.inputs[1] # comp.inputs[2]
    /\ \E i, j \in 1..2 :
          /\ HasSlot(i) /\ ~HasSlot(j)
          /\ regs.v[comp.value_map[comp.inputs[i]]] = last.values[i]
          /\ comp.inputs[i] = comp.total_loss

\* the value of leaf n in the most recent eval_step's forward pass
LeafVal(n) ==
    IF n \in DOMAIN comp.value_map THEN regs.fwd[comp.value_map[n]] ELSE comp.data0[n]

RECURSIVE Eval(_)
\* forward evaluation of node n from the leaf values
Eval(n) ==
    CASE nodes[n].op = "Value" -> LeafVal(n)
      [] nodes[n].op = "Add" -> Eval(nodes[n].lhs) + Eval(nodes[n].rhs)
      [] nodes[n].op = "Mul" -> Eval(nodes[n].lhs) * Eval(nodes[n].rhs)
      [] nodes[n].op = "Pow" -> PyPow(Eval(nodes[n].lhs), nodes[n].rhs)
      [] OTHER -> IF Eval(nodes[n].lhs) < 0 THEN 0 ELSE Eval(nodes[n].lhs)

RECURSIVE Evaluable(_)
\* the forward evaluation of node n meets integers only
Evaluable(n) ==
    CASE nodes[n].op = "Value" -> TRUE
      [] nodes[n].op \in {"Add", "Mul"} -> Evaluable(nodes[n].lhs) /\ Evaluable(nodes[n].rhs)
      [] nodes[n].op = "Pow" ->
            Evaluable(nodes[n].lhs) /\ PowExact(Eval(nodes[n].lhs), nodes[n].rhs)
      [] OTHER -> Evaluable(nodes[n].lhs)

\* C7 as stated: after an eval_step get_scores() holds, for every declared
\* score node, its forward value under the last forward pass's leaf values.
C7_Original ==
    (comp.pc = "ready" /\ regs.k >= 1 /\ ~regs.raised) =>
        \A i \in 1..Len(comp.scores) :
            Evaluable(comp.scores[i]) => get_scores(comp, regs)[i] = Eval(comp.scores[i])

\* C7 (amended): get_scores() returns, in the declared order, for a
\* composite score node reachable from the loss its forward value under the
\* leaf values of the most recent eval_step's forward pass, and for a
\* composite score node not reachable from the loss its data at compile
\* time; for a leaf score node, the leaf's current value (its data after
\* the parameter updates and set_inputs calls made so far).
C7_GetScores ==
    (comp.pc = "ready" /\ regs.k >= 1) =>
        \A i \in 1..Len(comp.scores) :
            LET n == comp.scores[i] IN
            IF nodes[n].op = "Value"
            THEN get_scores(comp, regs)[i] = nodes[n].data
            ELSE IF n \in Reach(nodes, comp.total_loss)
                 THEN ~regs.raised => (Evaluable(n) /\ get_scores(comp, regs)[i] = Eval(n))
                 ELSE get_scores(comp, regs)[i] = comp.data0[n]

\* after two steps: a reachable composite score whose value has changed
C7_Witness ==
    /\ comp.pc = "ready" /\ regs.k >= 2 /\ ~regs.raised
    /\ \E i \in 1..Len(comp.scores) :
          /\ nodes[comp.scores[i]].op # "Value"
          /\ comp.scores[i] \in Reach(nodes, comp.total_loss)
          /\ get_scores(comp, regs)[i] # comp.data0[comp.scores[i]]

Declared == SeqToSet(comp.parameters) \cup SeqToSet(comp.scores)

Generated == comp.pc \in {"backward", "assemble", "ready"}

DenseSlots ==
    /\ \A n, m \in DOMAIN comp.value_map :
          n # m => comp.value_map[n] # comp.value_map[m]
    /\ {comp.value_map[n] : n \in DOMAIN comp.value_map} = 0..(MapLen(comp.value_map) - 1)

\* C8 as stated: every node reachable from the loss and every declared
\* parameter, score and input node has a slot.
C8_Original ==
    Generated =>
        /\ DOMAIN comp.value_map =
              Reach(nodes, comp.total_loss) \cup Declared \cup SeqToSet(comp.inputs)
        /\ DenseSlots

\* C8 (amended): slot assignment.  compile assigns exactly one slot index
\* to every node reachable from the loss and to every declared parameter
\* and score node, also when unreachable; a declared input node that is
\* none of these gets no slot.  Distinct nodes get distinct indices, the
\* indices are exactly 0..N-1, and an index once assigned never changes.
C8_SlotAssignment ==
    /\ [](/\ DenseSlots
          /\ comp.pc # "idle" => Declared \cup {comp.total_loss} \subseteq DOMAIN comp.value_map
          /\ Generated => DOMAIN comp.value_map = Reach(nodes, comp.total_loss) \cup Declared)
    /\ [][\A n \in DOMAIN comp.value_map :
            n \in DOMAIN comp.value_map' /\ comp.value_map'[n] = comp.value_map[n]]_vars

\* compiled with an unreachable parameter or score and an input without a slot
C8_Witness ==
    /\ comp.pc = "ready"
    /\ Declared \ Reach(nodes, comp.total_loss) # {}
    /\ SeqToSet(comp.inputs) \ DOMAIN comp.value_map # {}
    /\ MapLen(comp.value_map) >= 2

\* the nodes reachable from n through at least one operand edge
Below(ns, n) ==
    ReachFrom(ns, SeqToSet(Children(ns, n)), SeqToSet(Children(ns, n)))

\* a node reachable from root is reachable from one of its own operands
HasCycle(ns, root) == \E n \in Reach(ns, root) : n \in Below(ns, n)

EdgeCount(ns, S) == SumSeq([i \in 1..Len(ns) |-> IF i \in S THEN Len(Children(ns, i)) ELSE 0])

Returned == trav.pc \in {"topo", "done"} /\ trav.stack = <<>>

\* C10 as stated: on a graph with a cycle _build_topo never returns.
C10_Original == ~(Returned /\ HasCycle(nodes, trav.root))

\* C10 (amended): cycles are not detected, yet _build_topo returns on every
\* graph, cyclic or not: it is called once for the root and once per operand
\* edge of a reachable node, each call takes at most four steps and can
\* always take its next one, and the list it returns holds every reachable
\* node exactly once.  On an acyclic graph every operand precedes its
\* parent in the list; on a cyclic graph some operand does not.
C10_TraversalTerminates ==
    trav.pc \in {"topo", "done"} =>
        /\ trav.calls <= 1 + EdgeCount(nodes, Reach(nodes, trav.root))
        /\ trav.steps <= 4 * trav.calls
        /\ Len(trav.stack) <= Cardinality(Reach(nodes, trav.root)) + 1
        /\ trav.stack # <<>> => ENABLED TopoStep
        /\ Returned =>
              /\ trav.calls = 1 + EdgeCount(nodes, Reach(nodes, trav.root))
              /\ SeqToSet(trav.topo) = Reach(nodes, trav.root)
              /\ Len(trav.topo) = Cardinality(Reach(nodes, trav.root))
              /\ HasCycle(nodes, trav.root) <=> ~TopoLaw(nodes, trav.root, trav.topo)

\* backward() has run to its end on a graph with a cycle through two nodes
C10_Witness ==
    /\ trav.pc = "done" /\ HasCycle(nodes, trav.root)
    /\ \E n \in Reach(nodes, trav.root) : n \in Below(nodes, n) /\ n \notin SeqToSet(Children(nodes, n))

====
